---- MODULE Spec2Model ----
(***************************************************************************)
(* Model of webpify's batch conversion engine: the library dispatcher      *)
(* (core.rs, WebpifyCore), the command-line dispatcher (main.rs), the      *)
(* converter's file-level behaviour (converter.rs) and the statistics      *)
(* aggregator (stats.rs), over a small filesystem.                         *)
(***************************************************************************)
EXTENDS Integers, Sequences, FiniteSets, TLC

\* ------------------------------------------------------------------ bounds
MaxFiles == 2        \* files present in the initial tree
MaxSize == 2         \* file sizes range from KB to KB * MaxSize bytes
NumCpus == 2         \* num_cpus::get() of the machine
MaxCalls == 3        \* calls issued to the aggregator in StatsSpec

KB == 1024
MB == 1024 * 1024

None == "None"

VARIABLES
    opt,      \* ConversionOptions / Args snapshot, plus which dispatcher runs
    start,    \* history: what the filesystem and the engine were when the run was started
    pc,       \* position of the run: Idle, Scanning, Dispatching, Finalizing, Done, Error
    files,    \* filesystem: existing regular files, path -> [size]
    dirs,     \* filesystem: existing directories (sequences of names)
    pool,     \* rayon global pool size, 0 while not built
    work,     \* the enumerated work list (sequence of paths)
    items,    \* per work item: worker position, result, call counts
    stats,    \* ConversionStats
    sink,     \* what the progress sink has received
    report    \* what the run returned: nothing yet, an error, or a ConversionReport

vars == <<opt, start, pc, files, dirs, pool, work, items, stats, sink, report>>

\* ------------------------------------------------------------------- paths
\* A file path: directory (sequence of names), file stem and extension.
Path(d, s, e) == [dir |-> d, stem |-> s, ext |-> e]

input_dir == <<"in">>
ExplicitOut == <<"out">>

\* str::to_lowercase on the extensions that occur
to_lowercase(e) ==
    CASE e = "PNG" -> "png"
      [] e = "JPG" -> "jpg"
      [] e = "WEBP" -> "webp"
      [] OTHER -> e

\* the images an initial input tree is drawn from
SrcPaths ==
    { Path(<<"in">>, "a", "png"), Path(<<"in">>, "a", "jpg"),
      Path(<<"in", "sub">>, "a", "png") }
CliPaths ==
    { Path(<<"in">>, "a", "png"), Path(<<"in", "sub">>, "a", "png"),
      Path(<<"in">>, "a", "webp") }

\* the sizes a file is given: the smallest and the largest
Sizes == { KB, KB * MaxSize }

\* the size of a source image of the initial tree
SrcSize(p) == IF p.ext = "jpg" THEN KB * MaxSize ELSE KB

Prefixes(d) == { SubSeq(d, 1, k) : k \in 1..Len(d) }

\* Path::starts_with / Path::strip_prefix on directories
starts_with(d, root) == Len(d) >= Len(root) /\ SubSeq(d, 1, Len(root)) = root
strip_prefix(d, root) == SubSeq(d, Len(root) + 1, Len(d))

\* std::fs::create_dir_all: the directory and every missing ancestor
create_dir_all(ds, d) == ds \cup Prefixes(d)

\* Path::exists for a file path (a file of that name exists)
exists(fs, p) == p \in DOMAIN fs

\* the filesystem without file p / with file p of size n
RemoveFile(fs, p) == [q \in (DOMAIN fs) \ {p} |-> fs[q]]
WriteFile(fs, p, n) == [q \in (DOMAIN fs) \cup {p} |-> IF q = p THEN [size |-> n, hdr |-> TRUE] ELSE fs[q]]

\* ConversionOptions::get_output_dir
get_output_dir(o) ==
    IF o.output_dir = None THEN o.input_dir \o <<"webp_output">> ELSE o.output_dir

\* main.rs get_output_dir
cli_get_output_dir(o) ==
    IF o.output_dir # None THEN o.output_dir
    ELSE IF o.replace_input = "Delete" THEN o.input_dir
    ELSE o.input_dir \o <<"webp_output">>

output_dir_of(o) == IF o.dispatcher = "core" THEN get_output_dir(o) ELSE cli_get_output_dir(o)

\* the derivation ignoring preserve_structure: always directly under the output root
calculate_output_path_flat(o, input_path, output_dir) ==
    Path(output_dir, input_path.stem, "webp")

\* WebpifyCore::calculate_output_path (and the same derivation in
\* process_single_image): every scanned path is under the input root, so
\* strip_prefix succeeds.
calculate_output_path(o, input_path, output_dir) ==
    IF o.preserve_structure
    THEN Path(output_dir \o strip_prefix(input_path.dir, o.input_dir), input_path.stem, "webp")
    ELSE Path(output_dir, input_path.stem, "webp")

\* ------------------------------------------------------------- statistics
\* ConversionStats::new
NewStats ==
    [processed_count |-> 0, error_count |-> 0, skipped_count |-> 0,
     original_size |-> 0, compressed_size |-> 0,
     format_stats |-> <<>>, errors |-> <<>>]

record_success(s, original, compressed) ==
    [s EXCEPT !.processed_count = @ + 1,
              !.original_size = @ + original,
              !.compressed_size = @ + compressed]

record_error(s, file_path, error) ==
    [s EXCEPT !.error_count = @ + 1,
              !.errors = Append(@, [file_path |-> file_path, error_message |-> error])]

record_skip(s) == [s EXCEPT !.skipped_count = @ + 1]

\* format_stats is a map from extension to count, kept as a function
record_format(s, format) ==
    [s EXCEPT !.format_stats =
        [f \in (DOMAIN @) \cup {format} |-> IF f \in DOMAIN @ THEN (IF f = format THEN @[f] + 1 ELSE @[f]) ELSE 1]]

\* A ratio is kept as a fraction num/den (den > 0); the code computes it in f64.
Ratio(n, d) == [num |-> n, den |-> d]
RatEq(a, b) == a.num * b.den = b.num * a.den
RatLe(a, b) == a.num * b.den <= b.num * a.den

\* ConversionStats::get_compression_ratio
get_compression_ratio(s) ==
    IF s.original_size > 0
    THEN Ratio(s.compressed_size, s.original_size)
    ELSE Ratio(0, 1)

Counted(s) == s.processed_count + s.error_count + s.skipped_count

get_format_stats(s) == s.format_stats
get_errors(s) == s.errors

\* ------------------------------------------------------------ the scanner
DefaultFormats == {"jpg", "jpeg", "png", "gif", "bmp", "tiff", "webp"}

\* utils::validate_image_header: the leading bytes match the extension's signature
validate_image_header(fs, p) == fs[p].size >= 4 /\ fs[p].hdr

\* utils::is_valid_image_file
is_valid_image_file(fs, p) ==
    /\ to_lowercase(p.ext) \in {"jpg", "jpeg", "png", "gif", "bmp", "tiff", "webp"}
    /\ validate_image_header(fs, p)

\* the filter of WebpifyCore::scan_input_files on one regular file
core_accepts(o, fs, p) ==
    /\ is_valid_image_file(fs, p)
    /\ to_lowercase(p.ext) \in o.formats
    /\ ~(to_lowercase(p.ext) = "webp" /\ ~o.reencode_webp)
    /\ ~(fs[p].size < o.min_size * KB)
    /\ (o.max_size # <<>> => ~(fs[p].size > o.max_size[1] * MB))

\* the filter of main.rs scan_input_files on one regular file
cli_accepts(o, fs, p) ==
    /\ to_lowercase(p.ext) \in o.formats
    /\ is_valid_image_file(fs, p)
    /\ ~((fs[p].size \div KB) < o.min_size)
    /\ (o.max_size # <<>> => ~(((fs[p].size \div KB) \div KB) > o.max_size[1]))

\* the walk visits the files in some fixed order
RECURSIVE SetToSeq(_)
SetToSeq(S) ==
    IF S = {} THEN <<>>
    ELSE LET x == CHOOSE y \in S : TRUE IN <<x>> \o SetToSeq(S \ {x})

\* WalkDir::new(input_dir): the regular files below the input root
walk(o, fs) == { p \in DOMAIN fs : starts_with(p.dir, o.input_dir) }

scan_input_files(o, fs) == SetToSeq({ p \in walk(o, fs) : core_accepts(o, fs, p) })
cli_scan_input_files(o, fs) == SetToSeq({ p \in walk(o, fs) : cli_accepts(o, fs, p) })

\* ------------------------------------------------------------- the report
NoReport == [status |-> "None"]      \* nothing returned (yet)
ErrReturn == [status |-> "Err"]      \* the run returned Err
\* rayon::current_num_threads: the global pool, built with the default size on first use
current_num_threads(pl) == IF pl = 0 THEN NumCpus ELSE pl

\* WebpifyCore::create_empty_report without the informational entry
create_empty_report_silent(o, pl) ==
    [status |-> "Ok", total_files |-> 0, processed_files |-> 0, failed_files |-> 0, skipped_files |-> 0,
     original_size |-> 0, compressed_size |-> 0, compression_ratio |-> Ratio(0, 1),
     thread_count |-> current_num_threads(pl), format_stats |-> <<>>,
     errors |-> <<>>]

\* WebpifyCore::create_empty_report
create_empty_report(o, pl) ==
    [status |-> "Ok", total_files |-> 0, processed_files |-> 0, failed_files |-> 0, skipped_files |-> 0,
     original_size |-> 0, compressed_size |-> 0, compression_ratio |-> Ratio(0, 1),
     thread_count |-> current_num_threads(pl), format_stats |-> <<>>,
     errors |-> << "No supported image files found in the specified directory" >>]

\* the ConversionReport assembled at the end of run_with_progress / main
final_report(o, pl, w, s) ==
    [status |-> "Ok", total_files |-> Len(w),
     processed_files |-> s.processed_count,
     failed_files |-> s.error_count,
     skipped_files |-> s.skipped_count,
     original_size |-> s.original_size,
     compressed_size |-> s.compressed_size,
     compression_ratio |-> get_compression_ratio(s),
     thread_count |-> current_num_threads(pl),
     format_stats |-> get_format_stats(s),
     errors |-> get_errors(s)]

\* ------------------------------------------------------------ work items
\* pc, result, seen_p, seen_f: the worker's position and locals.  History kept
\* for the properties: conv (converter invocations), disp (disposition actions
\* attempted), disp_failed (one of them failed), outcome (how the per-file
\* function returned: "skip", "ok", "err"), recorded (the calls of
\* record_success, record_error and record_skip made for the item).
NewItem ==
    [pc |-> "todo", result |-> None, conv |-> 0, disp |-> 0, disp_failed |-> FALSE,
     outcome |-> None, seen_p |-> 0, seen_f |-> 0,
     recorded |-> [success |-> 0, error |-> 0, skip |-> 0]]

Ok(original, compressed) == [ok |-> TRUE, original |-> original, compressed |-> compressed]
Err(msg) == [ok |-> FALSE, error |-> msg]

Idx == DOMAIN work
InFlight == Cardinality({ i \in Idx : items[i].pc \notin {"todo", "done"} })

NewSink == [set_total_calls |-> 0, total |-> None, updates |-> 0, last |-> <<0, 0>>]

\* ------------------------------------------------------------------- Init
\* max_size and threads are Options: <<>> is None, <<n>> is Some(n)
\* ConversionOptions of the library (a progress sink may be supplied)
Options ==
    [dispatcher : {"core"}, input_dir : {input_dir}, output_dir : {None, ExplicitOut},
     threads : {<<>>}, formats : {DefaultFormats}, overwrite : BOOLEAN,
     preserve_structure : BOOLEAN, max_size : {<<>>}, min_size : {1},
     replace_input : {"Off", "Recycle", "Delete"}, reencode_webp : {FALSE},
     dry_run : BOOLEAN, reporter : BOOLEAN, generate_report : {TRUE}]

\* Args of the command line (it draws its own progress bar; --report is optional)
CliOptions ==
    [dispatcher : {"cli"}, input_dir : {input_dir}, output_dir : {None, ExplicitOut},
     threads : {<<>>}, formats : {DefaultFormats}, overwrite : BOOLEAN,
     preserve_structure : BOOLEAN, max_size : {<<>>}, min_size : {1},
     replace_input : {"Off", "Recycle", "Delete"}, reencode_webp : BOOLEAN,
     dry_run : BOOLEAN, reporter : {FALSE}, generate_report : BOOLEAN]

\* what is kept of the moment run() was called: the files, whether the input
\* root existed, the statistics the engine held, and which run of the process
\* (run) and of the engine (engine_run) this is; prev holds the options of the
\* run before it, if any, whether it ended without a failure, and the files
\* it created
RunStart(fs, ds, st, run, engine_run, prev) ==
    [files |-> fs, input_exists |-> input_dir \in ds, stats0 |-> st,
     run |-> run, engine_run |-> engine_run, prev |-> prev]
FirstRun(fs, ds) == RunStart(fs, ds, NewStats, 1, 1, <<>>)

ParentDirs(P) == UNION { Prefixes(q.dir) : q \in P }

\* A tree of at most MaxFiles files: images under the input root and
\* destinations left over from an earlier conversion; the output root may or
\* may not exist.
InitTree(o, Cat) ==
    \/ \E S \in SUBSET Cat : \E out_exists \in BOOLEAN :
        /\ \E P \in SUBSET { calculate_output_path(o, q, output_dir_of(o)) : q \in S } :
              /\ Cardinality(S \cup P) <= MaxFiles
              /\ files = [q \in S \cup P |-> [size |-> IF q \in S THEN SrcSize(q) ELSE KB, hdr |-> TRUE]]
              /\ dirs = Prefixes(o.input_dir) \cup ParentDirs(S \cup P)
                          \cup (IF out_exists THEN Prefixes(output_dir_of(o)) ELSE {})
    \/ /\ files = <<>>          \* the input root does not exist
       /\ dirs = {}

InitRun(Opts, Cat) ==
    /\ opt \in Opts
    /\ pc = "Idle"
    /\ InitTree(opt, Cat)
    /\ start = FirstRun(files, dirs)
    /\ pool = 0
    /\ work = <<>>
    /\ items = <<>>
    /\ stats = NewStats
    /\ sink = NewSink
    /\ report = NoReport

Init == InitRun(Options, SrcPaths)

\* ------------------------------------------------- the library dispatcher
\* run_with_progress, lines 39-60: build the pool, create the output root
run_with_progress ==
    /\ pc = "Idle" /\ opt.dispatcher = "core"
    /\ pool' = IF pool = 0 /\ opt.threads # <<>> THEN opt.threads[1] ELSE pool
    /\ \/ /\ dirs' = create_dir_all(dirs, get_output_dir(opt))
          /\ pc' = "Scanning"
          /\ UNCHANGED report
       \/ /\ get_output_dir(opt) \notin dirs
          /\ dirs' = dirs
          /\ pc' = "Error"
          /\ report' = ErrReturn
    /\ UNCHANGED <<opt, start, files, work, items, stats, sink>>

\* run_with_progress, lines 62-76: scan, short-circuit on an empty list,
\* else tell the sink the total
run_scan ==
    /\ pc = "Scanning" /\ opt.dispatcher = "core"
    /\ \/ /\ opt.input_dir \in dirs
          /\ LET fl == scan_input_files(opt, files) IN
             /\ work' = fl
             /\ pool' = current_num_threads(pool)    \* the global pool is built on first use
             /\ IF fl = <<>>
                THEN /\ report' = create_empty_report(opt, pool)
                     /\ pc' = "Done"
                     /\ UNCHANGED <<items, sink>>
                ELSE /\ items' = [i \in DOMAIN fl |-> NewItem]
                     /\ sink' = IF opt.reporter
                                THEN [sink EXCEPT !.set_total_calls = @ + 1, !.total = Len(fl)]
                                ELSE sink
                     /\ pc' = "Dispatching"
                     /\ UNCHANGED report
       \/ /\ pc' = "Error"      \* a directory entry could not be read
          /\ report' = ErrReturn
          /\ UNCHANGED <<work, items, sink, pool>>
    /\ UNCHANGED <<opt, start, files, dirs, stats>>

\* process_single_file, lines 227-233: derive the destination, skip if it exists
process_single_file(i) ==
    /\ pc = "Dispatching" /\ opt.dispatcher = "core"
    /\ items[i].pc = "todo"
    /\ InFlight < current_num_threads(pool)
    /\ LET output_path == calculate_output_path(opt, work[i], get_output_dir(opt)) IN
       IF exists(files, output_path) /\ ~opt.overwrite
       THEN /\ stats' = record_skip(stats)
            /\ items' = [items EXCEPT ![i].pc = "match", ![i].result = Ok(0, 0),
                                      ![i].outcome = "skip", ![i].recorded.skip = @ + 1]
       ELSE /\ items' = [items EXCEPT ![i].pc = "convert"]
            /\ UNCHANGED stats
    /\ UNCHANGED <<opt, start, pc, files, dirs, pool, work, sink, report>>

\* the converter reporting the size of an encoding in dry-run too
convert_to_webp_encoded(o, fs, ds, input_path, output_path, d, w, c) ==
    IF ~exists(fs, input_path) THEN [res |-> Err("metadata"), fs |-> fs]
    ELSE IF ~d THEN [res |-> Err("Failed to read image"), fs |-> fs]
    ELSE IF o.dry_run THEN [res |-> Ok(fs[input_path].size, c), fs |-> fs]
    ELSE IF ~w \/ output_path.dir \notin ds THEN [res |-> Err("Failed to save WebP file"), fs |-> fs]
    ELSE [res |-> Ok(fs[input_path].size, c), fs |-> WriteFile(fs, output_path, c)]

\* ImageConverter::convert_to_webp: the result, and the filesystem after it
\* (d: the image decodes, w: the write succeeds, c: encoded size)
\* (std::fs::write fails when the parent directory is missing)
convert_to_webp(o, fs, ds, input_path, output_path, d, w, c) ==
    IF ~exists(fs, input_path) THEN [res |-> Err("metadata"), fs |-> fs]
    ELSE IF ~d THEN [res |-> Err("Failed to read image"), fs |-> fs]
    ELSE IF o.dry_run
         THEN [res |-> Ok(fs[input_path].size, (fs[input_path].size * 6) \div 10), fs |-> fs]
    ELSE IF ~w \/ output_path.dir \notin ds THEN [res |-> Err("Failed to save WebP file"), fs |-> fs]
    ELSE [res |-> Ok(fs[input_path].size, c), fs |-> WriteFile(fs, output_path, c)]

\* process_single_file, lines 235-248: parent directory, format tally, conversion
process_single_file_convert(i) ==
    /\ pc = "Dispatching" /\ opt.dispatcher = "core"
    /\ items[i].pc = "convert"
    /\ LET output_path == calculate_output_path(opt, work[i], get_output_dir(opt)) IN
       \/ /\ output_path.dir \notin dirs      \* create_dir_all fails
          /\ items' = [items EXCEPT ![i].pc = "match", ![i].result = Err("Failed to create directory"),
                                    ![i].outcome = "err"]
          /\ UNCHANGED <<files, dirs, stats>>
       \/ \E d \in BOOLEAN, w \in BOOLEAN, c \in Sizes :
            LET nd == create_dir_all(dirs, output_path.dir)
                r == convert_to_webp(opt, files, nd, work[i], output_path, d, w, c) IN
            /\ dirs' = nd
            /\ stats' = record_format(stats, to_lowercase(work[i].ext))
            /\ files' = r.fs
            /\ items' = [items EXCEPT ![i].pc = "match", ![i].result = r.res, ![i].conv = @ + 1,
                                      ![i].outcome = IF r.res.ok THEN "ok" ELSE "err"]
    /\ UNCHANGED <<opt, start, pc, pool, work, sink, report>>

\* WebpifyCore::handle_input_replacement: the filesystem after it (ok: the
\* recycle or delete succeeds)
handle_input_replacement(o, fs, input_path, ok) ==
    IF o.replace_input = "Off" THEN [failed |-> FALSE, fs |-> fs]
    ELSE IF ok /\ exists(fs, input_path) THEN [failed |-> FALSE, fs |-> RemoveFile(fs, input_path)]
    ELSE [failed |-> TRUE, fs |-> fs]

\* convert_images with a per-file error propagated out of the run (as with `?`)
convert_images_match_propagate(i) ==
    /\ pc = "Dispatching" /\ opt.dispatcher = "core"
    /\ items[i].pc = "match"
    /\ LET r == items[i].result
           next == IF opt.reporter THEN "load_processed" ELSE "done" IN
       IF r.ok
       THEN /\ stats' = record_success(stats, r.original, r.compressed)
            /\ items' = [items EXCEPT ![i].pc = next, ![i].result = None,
                                      ![i].recorded.success = @ + 1]
            /\ UNCHANGED <<files, pc, report>>
       ELSE /\ pc' = "Error"
            /\ report' = ErrReturn
            /\ UNCHANGED <<files, items, stats>>
    /\ UNCHANGED <<opt, start, dirs, pool, work, sink>>

\* convert_images, lines 187-206: record the outcome, dispose of the source
convert_images_match(i) ==
    /\ pc = "Dispatching" /\ opt.dispatcher = "core"
    /\ items[i].pc = "match"
    /\ LET r == items[i].result
           next == IF opt.reporter THEN "load_processed" ELSE "done" IN
       IF r.ok
       THEN /\ stats' = record_success(stats, r.original, r.compressed)
            /\ IF ~opt.dry_run
               THEN \E ok \in BOOLEAN :
                      LET h == handle_input_replacement(opt, files, work[i], ok) IN
                      /\ files' = h.fs      \* a failure is only logged (log::warn)
                      /\ items' = [items EXCEPT ![i].pc = next, ![i].result = None,
                                     ![i].recorded.success = @ + 1,
                                     ![i].disp = IF opt.replace_input = "Off" THEN @ ELSE @ + 1,
                                     ![i].disp_failed = h.failed]
               ELSE /\ items' = [items EXCEPT ![i].pc = next, ![i].result = None,
                                              ![i].recorded.success = @ + 1]
                    /\ UNCHANGED files
       ELSE /\ stats' = record_error(stats, work[i], r.error)
            /\ items' = [items EXCEPT ![i].pc = next, ![i].result = None,
                                      ![i].recorded.error = @ + 1]
            /\ UNCHANGED files
    /\ UNCHANGED <<opt, start, pc, dirs, pool, work, sink, report>>

\* convert_images, lines 209-213: the two loads and the call to the sink
load_processed(i) ==
    /\ pc = "Dispatching" /\ items[i].pc = "load_processed"
    /\ items' = [items EXCEPT ![i].pc = "load_failed", ![i].seen_p = stats.processed_count]
    /\ UNCHANGED <<opt, start, pc, files, dirs, pool, work, stats, sink, report>>

load_failed(i) ==
    /\ pc = "Dispatching" /\ items[i].pc = "load_failed"
    /\ items' = [items EXCEPT ![i].pc = "update_progress", ![i].seen_f = stats.error_count]
    /\ UNCHANGED <<opt, start, pc, files, dirs, pool, work, stats, sink, report>>

\* the sink told only about the items that were converted
update_progress_only_ok(i) ==
    /\ pc = "Dispatching" /\ items[i].pc = "update_progress"
    /\ sink' = IF items[i].outcome = "ok"
               THEN [sink EXCEPT !.updates = @ + 1, !.last = <<items[i].seen_p, items[i].seen_f>>]
               ELSE sink
    /\ items' = [items EXCEPT ![i].pc = "done", ![i].seen_p = 0, ![i].seen_f = 0]
    /\ UNCHANGED <<opt, start, pc, files, dirs, pool, work, stats, report>>

update_progress(i) ==
    /\ pc = "Dispatching" /\ items[i].pc = "update_progress"
    /\ sink' = [sink EXCEPT !.updates = @ + 1, !.last = <<items[i].seen_p, items[i].seen_f>>]
    /\ items' = [items EXCEPT ![i].pc = "done", ![i].seen_p = 0, ![i].seen_f = 0]
    /\ UNCHANGED <<opt, start, pc, files, dirs, pool, work, stats, report>>

\* for_each returning as soon as one item has been handled
convert_images_join_early ==
    /\ pc = "Dispatching" /\ opt.dispatcher = "core"
    /\ \E i \in Idx : items[i].pc = "done"
    /\ pc' = "Finalizing"
    /\ UNCHANGED <<opt, start, files, dirs, pool, work, items, stats, sink, report>>

\* par_iter().for_each returns once every item has been handled
convert_images_join ==
    /\ pc = "Dispatching" /\ opt.dispatcher = "core"
    /\ \A i \in Idx : items[i].pc = "done"
    /\ pc' = "Finalizing"
    /\ UNCHANGED <<opt, start, files, dirs, pool, work, items, stats, sink, report>>

\* run_with_progress, lines 81-107: assemble the report
run_finish ==
    /\ pc = "Finalizing" /\ opt.dispatcher = "core"
    /\ report' = final_report(opt, pool, work, stats)
    /\ pc' = "Done"
    /\ UNCHANGED <<opt, start, files, dirs, pool, work, items, stats, sink>>

Next ==
    \/ run_with_progress
    \/ run_scan
    \/ \E i \in Idx : process_single_file(i)
    \/ \E i \in Idx : process_single_file_convert(i)
    \/ \E i \in Idx : convert_images_match(i)
    \/ \E i \in Idx : load_processed(i)
    \/ \E i \in Idx : load_failed(i)
    \/ \E i \in Idx : update_progress(i)
    \/ convert_images_join
    \/ run_finish

Spec == Init /\ [][Next]_vars

\* The rayon workers keep running while work is left, and the calling thread
\* continues once for_each returns: no enabled step is postponed forever.
\* Every conversion terminates (it is one step).
FairSpec == Spec /\ WF_vars(Next)

\* ------------------------------------------- several runs in one process
\* Up to MaxRuns calls of run() in one process, one after the other, on the
\* filesystem the earlier runs left: run() again on the same engine, or a new
\* engine (WebpifyCore::new) with the same options but for the thread count.
\* The rayon global pool belongs to the process and outlives the engines.
MaxRuns == 2

ThreadChoices == {<<>>} \cup { <<n>> : n \in 1..NumCpus }

RunsOptions ==
    [dispatcher : {"core"}, input_dir : {input_dir}, output_dir : {None, ExplicitOut},
     threads : ThreadChoices, formats : {DefaultFormats}, overwrite : {FALSE},
     preserve_structure : {TRUE}, max_size : {<<>>}, min_size : {1},
     replace_input : {"Off"}, reencode_webp : BOOLEAN,
     dry_run : {FALSE}, reporter : {FALSE}, generate_report : {TRUE}]

InitRuns == InitRun(RunsOptions, SrcPaths)

\* WebpifyCore::run called once the previous call has returned
run ==
    /\ pc \in {"Done", "Error"} /\ start.run < MaxRuns
    /\ LET prev == <<[opt |-> opt, clean |-> (pc = "Done" /\ stats.error_count = 0),
                      written |-> (DOMAIN files) \ (DOMAIN start.files)]>> IN
       \/ /\ UNCHANGED <<opt, stats>>                 \* the same engine
          /\ start' = RunStart(files, dirs, stats, start.run + 1, start.engine_run + 1, prev)
       \/ \E t \in ThreadChoices :                   \* WebpifyCore::new(options)
             /\ opt' = [opt EXCEPT !.threads = t]
             /\ stats' = NewStats
             /\ start' = RunStart(files, dirs, NewStats, start.run + 1, 1, prev)
    /\ pc' = "Idle"
    /\ work' = <<>>
    /\ items' = <<>>
    /\ sink' = NewSink
    /\ report' = NoReport
    /\ UNCHANGED <<files, dirs, pool>>

\* run() supplies no progress sink
NextRuns ==
    \/ run
    \/ run_with_progress
    \/ run_scan
    \/ \E i \in Idx : process_single_file(i)
    \/ \E i \in Idx : process_single_file_convert(i)
    \/ \E i \in Idx : convert_images_match(i)
    \/ convert_images_join
    \/ run_finish

RunsSpec == InitRuns /\ [][NextRuns]_vars

\* -------------------------------------------- the command-line dispatcher
Unreported == [status |-> "Unreported"]    \* main returned Ok without --report

\* main.rs setup_thread_pool
setup_thread_pool(threads) ==
    IF threads # <<>> THEN threads[1] ELSE (IF NumCpus < 32 THEN NumCpus ELSE 32)

InitCli == InitRun(CliOptions, CliPaths)

\* main, lines 298-307: validate the arguments, build the pool, create the output root
main ==
    /\ pc = "Idle" /\ opt.dispatcher = "cli"
    /\ IF opt.input_dir \notin dirs
       THEN /\ pc' = "Error" /\ report' = ErrReturn
            /\ UNCHANGED <<pool, dirs>>
       ELSE /\ pool' = setup_thread_pool(opt.threads)
            /\ \/ /\ dirs' = create_dir_all(dirs, cli_get_output_dir(opt))
                  /\ pc' = "Scanning"
                  /\ UNCHANGED report
               \/ /\ cli_get_output_dir(opt) \notin dirs
                  /\ dirs' = dirs
                  /\ pc' = "Error"
                  /\ report' = ErrReturn
    /\ UNCHANGED <<opt, start, files, work, items, stats, sink>>

\* main, lines 317-362: scan; an empty list ends the run (with an empty report under --report)
main_scan ==
    /\ pc = "Scanning" /\ opt.dispatcher = "cli"
    /\ LET fl == cli_scan_input_files(opt, files) IN
       /\ work' = fl
       /\ IF fl = <<>>
          THEN /\ report' = IF opt.generate_report THEN create_empty_report(opt, pool) ELSE Unreported
               /\ pc' = "Done"
               /\ UNCHANGED items
          ELSE /\ items' = [i \in DOMAIN fl |-> NewItem]
               /\ pc' = "Preparing"
               /\ UNCHANGED report
    /\ UNCHANGED <<opt, start, files, dirs, pool, stats, sink>>

\* main.rs pre_create_directories: the parents of all destinations; a creation
\* that fails is only logged
pre_create_directories ==
    /\ pc = "Preparing" /\ opt.dispatcher = "cli"
    /\ IF opt.dry_run
       THEN dirs' = dirs
       ELSE LET dirs_to_create ==
                  { calculate_output_path(opt, work[i], cli_get_output_dir(opt)).dir : i \in Idx }
            IN \E created \in SUBSET dirs_to_create :
                  /\ dirs_to_create \cap dirs \subseteq created
                  /\ dirs' = dirs \cup UNION { Prefixes(d) : d \in created }
    /\ pc' = "Dispatching"
    /\ UNCHANGED <<opt, start, files, pool, work, items, stats, sink, report>>

\* convert_images closure, lines 798-810, and process_single_image, lines 923-939:
\* skip a webp source, read the source size, refuse an existing destination
process_single_image(i) ==
    /\ pc = "Dispatching" /\ opt.dispatcher = "cli"
    /\ items[i].pc = "todo"
    /\ InFlight < current_num_threads(pool)
    /\ LET output_path == calculate_output_path(opt, work[i], cli_get_output_dir(opt)) IN
       IF to_lowercase(work[i].ext) = "webp" /\ ~opt.reencode_webp
       THEN /\ stats' = [stats EXCEPT !.skipped_count = @ + 1]
            /\ items' = [items EXCEPT ![i].pc = "done", ![i].outcome = "skip",
                                      ![i].recorded.skip = @ + 1]
       ELSE /\ UNCHANGED stats
            /\ IF ~exists(files, work[i])
               THEN items' = [items EXCEPT ![i].pc = "match", ![i].result = Err("metadata"),
                                           ![i].outcome = "err"]
               ELSE IF ~opt.dry_run /\ exists(files, output_path) /\ ~opt.overwrite
               THEN items' = [items EXCEPT ![i].pc = "match",
                                ![i].result = Err("File exists and overwrite mode is disabled"),
                                ![i].outcome = "exists"]
               ELSE items' = [items EXCEPT ![i].pc = "convert",
                                ![i].result = Ok(files[work[i]].size, 0)]
    /\ UNCHANGED <<opt, start, pc, files, dirs, pool, work, sink, report>>

\* process_single_image, lines 941-950: convert, then size the output
process_single_image_convert(i) ==
    /\ pc = "Dispatching" /\ opt.dispatcher = "cli"
    /\ items[i].pc = "convert"
    /\ LET output_path == calculate_output_path(opt, work[i], cli_get_output_dir(opt))
           original_size == items[i].result.original IN
       \E d \in BOOLEAN, w \in BOOLEAN, c \in Sizes :
          LET r == convert_to_webp(opt, files, dirs, work[i], output_path, d, w, c)
              compressed_size == IF opt.dry_run THEN (original_size * 6) \div 10
                                 ELSE r.fs[output_path].size IN
          /\ files' = r.fs
          /\ items' = [items EXCEPT ![i].pc = "match", ![i].conv = @ + 1,
                          ![i].result = IF r.res.ok THEN Ok(original_size, compressed_size) ELSE r.res,
                          ![i].outcome = IF r.res.ok THEN "ok" ELSE "err"]
    /\ UNCHANGED <<opt, start, pc, dirs, pool, work, stats, sink, report>>

\* convert_images closure, lines 827-845: trash_delete / remove_file on the source
replace_input(o, fs, input_path, ok) ==
    IF o.replace_input = "Off" THEN [failed |-> FALSE, fs |-> fs]
    ELSE IF ok /\ exists(fs, input_path) THEN [failed |-> FALSE, fs |-> RemoveFile(fs, input_path)]
    ELSE [failed |-> TRUE, fs |-> fs]

replace_input_marker(o) ==
    IF o.replace_input = "Recycle" THEN "[replace_input:recycle]" ELSE "[replace_input:delete]"

\* convert_images closure, lines 823-853: record the outcome, dispose of the source
cli_convert_images_match(i) ==
    /\ pc = "Dispatching" /\ opt.dispatcher = "cli"
    /\ items[i].pc = "match"
    /\ LET r == items[i].result IN
       IF r.ok
       THEN \E ok \in BOOLEAN :
              LET h == replace_input(opt, files, work[i], ok)
                  s1 == record_success(stats, r.original, r.compressed) IN
              /\ files' = h.fs
              /\ stats' = IF h.failed
                          THEN record_error(s1, work[i], replace_input_marker(opt))
                          ELSE s1
              /\ items' = [items EXCEPT ![i].pc = "done", ![i].result = None,
                              ![i].recorded.success = @ + 1,
                              ![i].recorded.error = IF h.failed THEN @ + 1 ELSE @,
                              ![i].disp = IF opt.replace_input = "Off" THEN @ ELSE @ + 1,
                              ![i].disp_failed = h.failed]
       ELSE /\ stats' = record_error(stats, work[i], r.error)
            /\ items' = [items EXCEPT ![i].pc = "done", ![i].result = None,
                                      ![i].recorded.error = @ + 1]
            /\ UNCHANGED files
    /\ UNCHANGED <<opt, start, pc, dirs, pool, work, sink, report>>

\* par_iter().for_each returns once every item has been handled
cli_convert_images_join ==
    /\ pc = "Dispatching" /\ opt.dispatcher = "cli"
    /\ \A i \in Idx : items[i].pc = "done"
    /\ pc' = "Finalizing"
    /\ UNCHANGED <<opt, start, files, dirs, pool, work, items, stats, sink, report>>

\* main, lines 367-400: the report, under --report
main_report ==
    /\ pc = "Finalizing" /\ opt.dispatcher = "cli"
    /\ report' = IF opt.generate_report THEN final_report(opt, pool, work, stats) ELSE Unreported
    /\ pc' = "Done"
    /\ UNCHANGED <<opt, start, files, dirs, pool, work, items, stats, sink>>

NextCli ==
    \/ main
    \/ main_scan
    \/ pre_create_directories
    \/ \E i \in Idx : process_single_image(i)
    \/ \E i \in Idx : process_single_image_convert(i)
    \/ \E i \in Idx : cli_convert_images_match(i)
    \/ cli_convert_images_join
    \/ main_report

SpecCli == InitCli /\ [][NextCli]_vars

\* ------------------------------------------------- the aggregator on its own
\* Any sequence of at most MaxCalls calls to the recording methods.
InitStats ==
    /\ opt = [dispatcher |-> "stats"]
    /\ pc = "Stats"
    /\ files = <<>> /\ dirs = {} /\ pool = 0 /\ work = <<>> /\ items = <<>>
    /\ start = FirstRun(files, dirs)
    /\ stats = NewStats
    /\ sink = NewSink
    /\ report = NoReport

Calls(s) == Counted(s)

call_record_success ==
    /\ pc = "Stats" /\ Calls(stats) < MaxCalls
    /\ \E original \in {0} \cup Sizes, compressed \in {0} \cup Sizes :
          stats' = record_success(stats, original, compressed)
    /\ UNCHANGED <<opt, start, pc, files, dirs, pool, work, items, sink, report>>

call_record_error ==
    /\ pc = "Stats" /\ Calls(stats) < MaxCalls
    /\ \E p \in SrcPaths : stats' = record_error(stats, p, "Failed to read image")
    /\ UNCHANGED <<opt, start, pc, files, dirs, pool, work, items, sink, report>>

call_record_skip ==
    /\ pc = "Stats" /\ Calls(stats) < MaxCalls
    /\ stats' = record_skip(stats)
    /\ UNCHANGED <<opt, start, pc, files, dirs, pool, work, items, sink, report>>

NextStats == call_record_success \/ call_record_error \/ call_record_skip

StatsSpec == InitStats /\ [][NextStats]_vars

\* ------------------------------------------- the aggregator under concurrency
\* NumCpus worker threads issue at most MaxCalls calls in all; each call runs
\* in the steps of its code: one step per atomic fetch_add, and for the
\* mutex-guarded error list and format map a step that takes the lock and
\* reads, and a step that writes and drops the lock.  A thread keeps what it
\* issued (issued) for the properties.
Threads == 1..NumCpus
Formats == {"png", "jpg"}

NewThread ==
    [pc |-> "idle", original |-> 0, compressed |-> 0, format |-> None, seen |-> <<>>,
     issued |-> [success |-> 0, error |-> 0, skip |-> 0, original |-> 0, compressed |-> 0,
                 png |-> 0, jpg |-> 0]]

RECURSIVE Tally(_, _)
Tally(f, k) == IF k = 0 THEN 0 ELSE f[k] + Tally(f, k - 1)
Issued(field) == Tally([t \in DOMAIN items |-> items[t].issued[field]], Len(items))
IssuedCalls ==
    Issued("success") + Issued("error") + Issued("skip") + Issued("png") + Issued("jpg")

InitConc ==
    /\ opt = [dispatcher |-> "threads"]
    /\ pc = "Workers"
    /\ files = <<>> /\ dirs = {} /\ pool = NumCpus /\ work = <<>>
    /\ start = FirstRun(files, dirs)
    /\ items = [t \in Threads |-> NewThread]
    /\ stats = NewStats
    /\ sink = NewSink
    /\ report = NoReport

\* Mutex::lock succeeds when no thread is inside the critical section
errors_lock_free_always(its) == TRUE

errors_lock_free(its) == \A t \in DOMAIN its : its[t].pc # "errors_locked"

format_stats_lock_free(its) == \A t \in DOMAIN its : its[t].pc # "format_stats_locked"

\* record_success, line 42: processed_count.fetch_add(1)
record_success_processed(t) ==
    /\ pc = "Workers" /\ items[t].pc = "idle" /\ IssuedCalls < MaxCalls
    /\ \E original \in Sizes, compressed \in Sizes :
          items' = [items EXCEPT ![t].pc = "success_original",
                                 ![t].original = original, ![t].compressed = compressed,
                                 ![t].issued.success = @ + 1,
                                 ![t].issued.original = @ + original,
                                 ![t].issued.compressed = @ + compressed]
    /\ stats' = [stats EXCEPT !.processed_count = @ + 1]
    /\ UNCHANGED <<opt, start, pc, files, dirs, pool, work, sink, report>>

\* record_success, line 43: original_size.fetch_add(original_size)
record_success_original(t) ==
    /\ pc = "Workers" /\ items[t].pc = "success_original"
    /\ stats' = [stats EXCEPT !.original_size = @ + items[t].original]
    /\ items' = [items EXCEPT ![t].pc = "success_compressed", ![t].original = 0]
    /\ UNCHANGED <<opt, start, pc, files, dirs, pool, work, sink, report>>

\* record_success, line 44: compressed_size.fetch_add(compressed_size)
record_success_compressed(t) ==
    /\ pc = "Workers" /\ items[t].pc = "success_compressed"
    /\ stats' = [stats EXCEPT !.compressed_size = @ + items[t].compressed]
    /\ items' = [items EXCEPT ![t].pc = "idle", ![t].compressed = 0]
    /\ UNCHANGED <<opt, start, pc, files, dirs, pool, work, sink, report>>

\* record_error, line 48: error_count.fetch_add(1)
record_error_count(t) ==
    /\ pc = "Workers" /\ items[t].pc = "idle" /\ IssuedCalls < MaxCalls
    /\ stats' = [stats EXCEPT !.error_count = @ + 1]
    /\ items' = [items EXCEPT ![t].pc = "errors_lock", ![t].issued.error = @ + 1]
    /\ UNCHANGED <<opt, start, pc, files, dirs, pool, work, sink, report>>

\* record_error, line 49: errors.lock(), and push reads the vector
record_error_lock(t) ==
    /\ pc = "Workers" /\ items[t].pc = "errors_lock"
    /\ errors_lock_free(items)
    /\ items' = [items EXCEPT ![t].pc = "errors_locked", ![t].seen = stats.errors]
    /\ UNCHANGED <<opt, start, pc, files, dirs, pool, work, stats, sink, report>>

\* record_error, lines 50-56: push writes the vector, the guard is dropped
record_error_push(t) ==
    /\ pc = "Workers" /\ items[t].pc = "errors_locked"
    /\ stats' = [stats EXCEPT !.errors =
                    Append(items[t].seen, [file_path |-> Path(<<"in">>, "a", "png"),
                                           error_message |-> "Failed to read image"])]
    /\ items' = [items EXCEPT ![t].pc = "idle", ![t].seen = <<>>]
    /\ UNCHANGED <<opt, start, pc, files, dirs, pool, work, sink, report>>

\* record_skip, line 74: skipped_count.fetch_add(1)
call_skip(t) ==
    /\ pc = "Workers" /\ items[t].pc = "idle" /\ IssuedCalls < MaxCalls
    /\ stats' = record_skip(stats)
    /\ items' = [items EXCEPT ![t].issued.skip = @ + 1]
    /\ UNCHANGED <<opt, start, pc, files, dirs, pool, work, sink, report>>

\* record_format, line 79: format_stats.lock(), and entry() reads the map
record_format_lock(t) ==
    /\ pc = "Workers" /\ items[t].pc = "idle" /\ IssuedCalls < MaxCalls
    /\ format_stats_lock_free(items)
    /\ \E format \in Formats :
          items' = [items EXCEPT ![t].pc = "format_stats_locked", ![t].format = format,
                                 ![t].seen = stats.format_stats,
                                 ![t].issued[format] = @ + 1]
    /\ UNCHANGED <<opt, start, pc, files, dirs, pool, work, stats, sink, report>>

\* record_format, line 80: the entry is incremented, the guard is dropped
record_format_entry(t) ==
    /\ pc = "Workers" /\ items[t].pc = "format_stats_locked"
    /\ stats' = record_format([stats EXCEPT !.format_stats = items[t].seen], items[t].format)
    /\ items' = [items EXCEPT ![t].pc = "idle", ![t].format = None, ![t].seen = <<>>]
    /\ UNCHANGED <<opt, start, pc, files, dirs, pool, work, sink, report>>

NextConc ==
    \/ \E t \in DOMAIN items : record_success_processed(t)
    \/ \E t \in DOMAIN items : record_success_original(t)
    \/ \E t \in DOMAIN items : record_success_compressed(t)
    \/ \E t \in DOMAIN items : record_error_count(t)
    \/ \E t \in DOMAIN items : record_error_lock(t)
    \/ \E t \in DOMAIN items : record_error_push(t)
    \/ \E t \in DOMAIN items : call_skip(t)
    \/ \E t \in DOMAIN items : record_format_lock(t)
    \/ \E t \in DOMAIN items : record_format_entry(t)

ConcSpec == InitConc /\ [][NextConc]_vars

\* ---------------------------------------------------- the scanners on their own
\* One regular file under the input root, of any extension, size and header,
\* scanned by the library scanner or by the command-line scanner.
ScanOptions ==
    [dispatcher : {"core", "cli"}, input_dir : {input_dir}, output_dir : {ExplicitOut},
     threads : {<<>>}, formats : {DefaultFormats, {"png", "jpg"}}, overwrite : {FALSE},
     preserve_structure : {TRUE}, max_size : {<<>>, <<1>>}, min_size : {1, MaxSize},
     replace_input : {"Off"}, reencode_webp : BOOLEAN,
     dry_run : {FALSE}, reporter : {FALSE}, generate_report : {TRUE}]

ScanExts == {"png", "PNG", "webp", "bmp", "txt"}
ScanSizes == {KB - 1, KB, KB * MaxSize - 1, KB * MaxSize, MB, MB + 1, 2 * MB}

InitScan ==
    /\ opt \in ScanOptions
    /\ pc = "Idle"
    /\ \E e \in ScanExts, n \in ScanSizes, h \in BOOLEAN :
          files = (Path(<<"in">>, "a", e) :> [size |-> n, hdr |-> h])
    /\ dirs = {<<"in">>, <<"out">>}
    /\ start = FirstRun(files, dirs)
    /\ pool = 0 /\ work = <<>> /\ items = <<>>
    /\ stats = NewStats
    /\ sink = NewSink
    /\ report = NoReport

\* WebpifyCore::scan_input_files
scan_core ==
    /\ pc = "Idle" /\ opt.dispatcher = "core"
    /\ work' = scan_input_files(opt, files)
    /\ pc' = "Scanned"
    /\ UNCHANGED <<opt, start, files, dirs, pool, items, stats, sink, report>>

\* main.rs scan_input_files
scan_cli ==
    /\ pc = "Idle" /\ opt.dispatcher = "cli"
    /\ work' = cli_scan_input_files(opt, files)
    /\ pc' = "Scanned"
    /\ UNCHANGED <<opt, start, files, dirs, pool, items, stats, sink, report>>

NextScan == scan_core \/ scan_cli

ScanSpec == InitScan /\ [][NextScan]_vars

\* ------------------------------------------------- the Auto-mode selector
\* One decoded bitmap and source extension, handed to the selector up to
\* MaxCalls times.
Max(a, b) == IF a >= b THEN a ELSE b
Min(a, b) == IF a <= b THEN a ELSE b

\* the bitmaps handed to the selector: dimensions around the 50,000 pixel
\* threshold (the u32 product width * height does not wrap for them), a colour
\* pattern, and the place of a transparent pixel
Dimensions == { <<10, 10>>, <<223, 224>>, <<250, 200>>, <<224, 224>>, <<5, 10000>> }
Patterns == {"flat", "mod63", "mod64", "ramp"}
Alphas == {"opaque", "first", "offgrid", "last"}
SelectorExts == {"png", "PNG", "gif", "jpg", "jpeg", "bmp", "webp"}

Bitmaps ==
    { [width |-> d[1], height |-> d[2], pattern |-> p, alpha |-> a] :
        d \in Dimensions, p \in Patterns, a \in Alphas }

\* the strides of analyze_color_complexity, lines 177-178
step_x(img) == Max(img.width \div 10, 1)
step_y(img) == Max(img.height \div 10, 1)

\* (0..n).step_by(step) has this many elements
step_count(n, step) == (n + step - 1) \div step

\* the pixels visited by the two nested loops, lines 184-185: how many, and
\* the k-th in the order of the visit
GridLen(img) == step_count(img.width, step_x(img)) * step_count(img.height, step_y(img))
GridPoint(img, k) ==
    LET nx == step_count(img.width, step_x(img))
    IN <<step_x(img) * ((k - 1) % nx), step_y(img) * ((k - 1) \div nx)>>

\* img.get_pixel(x, y): an Rgba<u8>.  The patterns colour the bitmap in cells
\* of one stride: one colour, 63 colours, 64 colours, every cell its own.
get_pixel(img, x, y) ==
    LET nx == step_count(img.width, step_x(img))
        cell == (x \div step_x(img)) + nx * (y \div step_y(img))
        c == CASE img.pattern = "flat" -> 0
               [] img.pattern = "mod63" -> cell % 63
               [] img.pattern = "mod64" -> cell % 64
               [] OTHER -> cell
        transparent ==
            \/ img.alpha = "first" /\ x = 0 /\ y = 0
            \/ img.alpha = "offgrid" /\ x = 1 /\ y = 1
            \/ img.alpha = "last" /\ <<x, y>> = GridPoint(img, GridLen(img))
    IN <<c % 256, c \div 256, 0, IF transparent THEN 0 ELSE 255>>

\* analyze_color_complexity, lines 185-200: the inner loop over x from the
\* i-th column on, in row y; it breaks once the set is larger than sample_size
RECURSIVE sample_row(_, _, _, _, _)
sample_row(img, y, i, sample_size, acc) ==
    IF i > step_count(img.width, step_x(img)) THEN acc
    ELSE IF Cardinality(acc.unique_colors) > sample_size THEN acc
    ELSE LET rgba == get_pixel(img, step_x(img) * (i - 1), y)
         IN sample_row(img, y, i + 1, sample_size,
               [unique_colors |-> acc.unique_colors \cup {<<rgba[1], rgba[2], rgba[3]>>},
                has_transparency |-> acc.has_transparency \/ (Len(rgba) > 3 /\ rgba[4] < 255)])

\* analyze_color_complexity, lines 184-201: the outer loop over y from the
\* j-th row on
RECURSIVE sample_rows(_, _, _, _)
sample_rows(img, j, sample_size, acc) ==
    IF j > step_count(img.height, step_y(img)) THEN acc
    ELSE sample_rows(img, j + 1, sample_size,
            sample_row(img, step_y(img) * (j - 1), 1, sample_size, acc))

\* the colour analysis without the transparency test
analyze_color_complexity_opaque(img) ==
    LET sample_size == Min(100, (img.width * img.height) \div 4)
        r == sample_rows(img, 1, sample_size, [unique_colors |-> {}, has_transparency |-> FALSE])
    IN Cardinality(r.unique_colors) < 64

\* ImageConverter::analyze_color_complexity (TRUE: lossless)
analyze_color_complexity(img) ==
    LET sample_size == Min(100, (img.width * img.height) \div 4)
        r == sample_rows(img, 1, sample_size, [unique_colors |-> {}, has_transparency |-> FALSE])
    IN r.has_transparency \/ Cardinality(r.unique_colors) < 64

\* ImageConverter::should_use_lossless_fast
should_use_lossless_fast(img, ext) ==
    LET extension == to_lowercase(ext)
        total_pixels == img.width * img.height
    IN CASE extension \in {"png", "gif"} -> TRUE
         [] extension \in {"jpg", "jpeg"} ->
               IF total_pixels < 50000 THEN TRUE ELSE analyze_color_complexity(img)
         [] OTHER ->
               IF total_pixels < 50000 THEN TRUE ELSE analyze_color_complexity(img)

InitAuto ==
    /\ opt = [dispatcher |-> "selector"]
    /\ pc = "Select"
    /\ \E b \in Bitmaps, e \in SelectorExts : items = <<[img |-> b, ext |-> e]>>
    /\ work = <<>>
    /\ files = <<>> /\ dirs = {} /\ pool = 0
    /\ start = FirstRun(files, dirs)
    /\ stats = NewStats
    /\ sink = NewSink
    /\ report = NoReport

\* convert_auto_fast, line 125 (and analyze_conversion, line 67): the selector
\* is asked; work keeps the decisions it returned
convert_auto_fast ==
    /\ pc = "Select" /\ Len(work) < MaxCalls
    /\ \E should_use_lossless \in BOOLEAN :
          /\ should_use_lossless = should_use_lossless_fast(items[1].img, items[1].ext)
          /\ work' = Append(work, should_use_lossless)
    /\ UNCHANGED <<opt, start, pc, files, dirs, pool, items, stats, sink, report>>

NextAuto == convert_auto_fast

AutoSpec == InitAuto /\ [][NextAuto]_vars

\* ------------------------------------------------------- the GUI front end
\* The application of gui.rs: one frame handler on the GUI thread, and the
\* background threads start_conversion spawns, which share one
\* GuiProgressReporter behind a mutex.  Here `report` is the application's
\* fields, `sink` the shared GuiProgressReporter, `items` the background
\* threads in the order they were spawned.  At most MaxRuns are spawned.
Clicks == {"none", "start", "stop", "clear"}

\* GuiProgressReporter::new; report and error are options: <<>> or <<v>>
NewGuiProgressReporter ==
    [total_files |-> 0, processed_files |-> 0, failed_files |-> 0,
     finished |-> FALSE, report |-> <<>>, error |-> <<>>]

\* WebpifyGuiApp::new, the fields the frame handler and the buttons use
NewGuiApp ==
    [is_converting |-> FALSE, last_report |-> <<>>, error_message |-> <<>>,
     total_files |-> 0, processed_files |-> 0, failed_files |-> 0]

\* the first half of update: the fields copied from the shared reporter
poll_reporter(app, reporter) ==
    LET copied == [app EXCEPT !.total_files = reporter.total_files,
                              !.processed_files = reporter.processed_files,
                              !.failed_files = reporter.failed_files]
    IN  IF reporter.finished
        THEN [copied EXCEPT
                 !.is_converting = FALSE,
                 !.last_report = IF reporter.report # <<>> THEN reporter.report ELSE @,
                 !.error_message = IF reporter.error # <<>> THEN reporter.error ELSE @]
        ELSE copied

\* clear_results: the application's part
clear_results(app) ==
    [app EXCEPT !.last_report = <<>>, !.error_message = <<>>,
                !.total_files = 0, !.processed_files = 0, !.failed_files = 0]

\* a background thread as spawned: its own engine, with what its run will
\* find (n files, or an error before the scan)
SpawnedRun(n, ok) ==
    [pc |-> IF ok THEN "set_total_files" ELSE "finish",
     ok |-> ok, total |-> n, processed |-> 0, failed |-> 0]

InitGui ==
    /\ opt = [dispatcher |-> "gui"]
    /\ pc = "Gui"
    /\ report = NewGuiApp
    /\ sink = NewGuiProgressReporter
    /\ items = <<>>
    /\ work = <<>>
    /\ files = <<>> /\ dirs = {} /\ pool = 0
    /\ start = FirstRun(files, dirs)
    /\ stats = NewStats

\* update, one frame: the reporter is polled, then the button clicked in this
\* frame (if any) is handled; the input directory is set and exists
update(click) ==
    /\ pc = "Gui"
    /\ LET polled == poll_reporter(report, sink)
           can_convert == ~polled.is_converting
       IN  CASE click = "start" /\ can_convert /\ Len(items) < MaxRuns ->
                  \* start_conversion: clear_results, is_converting, spawn
                  \E n \in 0..MaxFiles, ok \in BOOLEAN :
                     /\ report' = [clear_results(polled) EXCEPT !.is_converting = TRUE]
                     /\ sink' = NewGuiProgressReporter
                     /\ items' = Append(items, SpawnedRun(n, ok))
             [] click = "stop" /\ polled.is_converting ->
                  /\ report' = [polled EXCEPT !.is_converting = FALSE]
                  /\ UNCHANGED <<sink, items>>
             [] click = "clear" ->
                  /\ report' = clear_results(polled)
                  /\ sink' = NewGuiProgressReporter
                  /\ UNCHANGED items
             [] OTHER ->
                  /\ report' = polled
                  /\ UNCHANGED <<sink, items>>
    /\ UNCHANGED <<opt, start, pc, files, dirs, pool, work, stats>>

\* ThreadSafeGuiProgressReporter::set_total_files, called by the run of thread t
gui_set_total_files(t) ==
    /\ pc = "Gui" /\ items[t].pc = "set_total_files"
    /\ sink' = [sink EXCEPT !.total_files = items[t].total]
    /\ items' = [items EXCEPT ![t].pc =
                    IF items[t].total = 0 THEN "finish" ELSE "update_progress"]
    /\ UNCHANGED <<opt, start, pc, files, dirs, pool, work, stats, report>>

\* ThreadSafeGuiProgressReporter::update_progress, called by the run of thread
\* t after one more file is processed or has failed
gui_update_progress(t) ==
    /\ pc = "Gui" /\ items[t].pc = "update_progress"
    /\ \E failed \in BOOLEAN :
          LET p == items[t].processed + (IF failed THEN 0 ELSE 1)
              f == items[t].failed + (IF failed THEN 1 ELSE 0)
          IN  /\ sink' = [sink EXCEPT !.processed_files = p, !.failed_files = f]
              /\ items' = [items EXCEPT
                              ![t].processed = p, ![t].failed = f,
                              ![t].pc = IF p + f = items[t].total
                                        THEN "finish" ELSE "update_progress"]
    /\ UNCHANGED <<opt, start, pc, files, dirs, pool, work, stats, report>>

\* the end of the spawned closure: the run of thread t returned, its report
\* (or its error) is stored and finished is set
spawned_run_returns(t) ==
    /\ pc = "Gui" /\ items[t].pc = "finish"
    /\ sink' = IF items[t].ok
               THEN [sink EXCEPT
                        !.report = <<[run |-> t, total_files |-> items[t].total,
                                      processed_files |-> items[t].processed,
                                      failed_files |-> items[t].failed]>>,
                        !.finished = TRUE]
               ELSE [sink EXCEPT !.error = <<t>>, !.finished = TRUE]
    /\ items' = [items EXCEPT ![t].pc = "exited"]
    /\ UNCHANGED <<opt, start, pc, files, dirs, pool, work, stats, report>>

NextGui ==
    \/ \E click \in Clicks : update(click)
    \/ \E t \in DOMAIN items : gui_set_total_files(t)
    \/ \E t \in DOMAIN items : gui_update_progress(t)
    \/ \E t \in DOMAIN items : spawned_run_returns(t)

GuiSpec == InitGui /\ [][NextGui]_vars

\* ------------------------------------------------------------- properties
HasReport == report.status = "Ok"
IsDispositionMarker(msg) == msg \in {"[replace_input:recycle]", "[replace_input:delete]"}
DestOf(i) == calculate_output_path(opt, work[i], output_dir_of(opt))

\* C1: after a complete run, processed + failed + skipped of the report equals
\* the number of enumerated work items.
C1_CountsAddUp ==
    (pc = "Done" /\ HasReport) =>
        report.processed_files + report.failed_files + report.skipped_files = report.total_files

\* C2: at all times processed + failed + skipped is at most the number of
\* enumerated work items, and no counter ever decreases.
C2_BoundedAndMonotone ==
    /\ [](Counted(stats) <= Len(work))
    /\ [][ /\ stats'.processed_count >= stats.processed_count
           /\ stats'.error_count >= stats.error_count
           /\ stats'.skipped_count >= stats.skipped_count
           /\ stats'.original_size >= stats.original_size
           /\ stats'.compressed_size >= stats.compressed_size ]_vars

\* C3: every step of a work item that was skipped because its destination
\* exists (overwrite disabled) leaves processed, failed and the error list
\* alone, never invokes the converter, and the item adds one to skipped.
C3_SkipCountsOnlyAsSkip ==
    [][ \A i \in DOMAIN items :
          (i \in DOMAIN items' /\ items'[i] # items[i] /\ items'[i].outcome = "skip") =>
             /\ stats'.processed_count = stats.processed_count
             /\ stats'.error_count = stats.error_count
             /\ stats'.errors = stats.errors
             /\ items'[i].conv = 0
             /\ stats'.skipped_count =
                   stats.skipped_count + (IF items[i].outcome = "skip" THEN 0 ELSE 1) ]_vars

\* C4: a disposition action (recycle or delete) is performed on the source of
\* an item only if the converter was invoked for the item and succeeded.
C4_DispositionOnlyAfterConversion ==
    \A i \in DOMAIN items :
        items[i].disp > 0 => (items[i].conv > 0 /\ items[i].outcome = "ok")

\* C5: in dry-run no step of the run changes the filesystem.
C5_DryRunLeavesFilesystem ==
    [][ opt.dry_run => (files' = files /\ dirs' = dirs) ]_vars

\* C6: in dry-run no disposition action is performed, whatever the policy, and
\* every enumerated source file still exists.
C6_DryRunNoDisposition ==
    opt.dry_run =>
        \A i \in DOMAIN items : items[i].disp = 0 /\ exists(files, work[i])

\* C7: when the disposition action fails for an item whose conversion succeeded, the same step
\* counts the item as processed, keeps the destination, and appends exactly
\* one error entry carrying a disposition marker for that file.
C7_DispositionFailureIsReported ==
    [][ \A i \in DOMAIN items :
          (/\ i \in DOMAIN items'
           /\ items[i].conv = 1 /\ items[i].outcome = "ok"
           /\ ~items[i].disp_failed /\ items'[i].disp_failed) =>
             /\ stats'.processed_count = stats.processed_count + 1
             /\ (~opt.dry_run => exists(files', DestOf(i)))
             /\ Len(stats'.errors) = Len(stats.errors) + 1
             /\ stats'.errors[Len(stats'.errors)].file_path = work[i]
             /\ IsDispositionMarker(stats'.errors[Len(stats'.errors)].error_message) ]_vars

\* C8: the ratio in the report is 1 - compressed/original when
\* original > 0, and 0 when original = 0.
C8_RatioIsShareSaved ==
    HasReport =>
        IF report.original_size > 0
        THEN RatEq(report.compression_ratio,
                   Ratio(report.original_size - report.compressed_size, report.original_size))
        ELSE RatEq(report.compression_ratio, Ratio(0, 1))

\* C10: when the scan returns an empty work list the run ends Done (not Error)
\* with an all-zero report holding exactly the one 'no files found' entry, and
\* neither the converter nor the progress sink has been called.
C10_EmptyWorkList ==
    (pc \notin {"Idle", "Scanning", "Error"} /\ work = <<>>) =>
        /\ pc = "Done" /\ HasReport
        /\ report.total_files = 0 /\ report.processed_files = 0
        /\ report.failed_files = 0 /\ report.skipped_files = 0
        /\ report.original_size = 0 /\ report.compressed_size = 0
        /\ report.errors = << "No supported image files found in the specified directory" >>
        /\ items = <<>>
        /\ stats = NewStats
        /\ sink = NewSink

\* an empty scan with a progress sink supplied, files present but none accepted or none present
C10_Witness ==
    pc = "Done" /\ work = <<>> /\ opt.reporter /\ opt.dispatcher = "core"

\* C9: whatever record_success calls were made, the compression ratio lies in
\* [0, 1] when the accumulated original bytes are > 0 and is 0 when they are 0.
C9_RatioWithinUnitInterval ==
    LET r == get_compression_ratio(stats) IN
    IF stats.original_size > 0
    THEN RatLe(Ratio(0, 1), r) /\ RatLe(r, Ratio(1, 1))
    ELSE RatEq(r, Ratio(0, 1))

\* C11: a run that ends in the error terminal returned no report and handled no
\* work item (no statistics change), and a run started on a missing input root
\* never gets past the scan and never returns a report, whether the output
\* root is explicit or derived from the input root.
C11_FatalErrorsAbortTheRun ==
    /\ (pc = "Error" =>
           /\ report = ErrReturn /\ work = <<>> /\ items = <<>> /\ stats = NewStats)
    /\ (~start.input_exists =>
           /\ pc \in {"Idle", "Scanning", "Error"}
           /\ ~HasReport /\ stats = NewStats)

\* C12: every run terminates, and once dispatch has begun the run reaches Done
\* with a report and with every enumerated item handled, whatever per-file
\* failures occurred on the way.
C12_FailuresDoNotStopTheRun ==
    /\ <>(pc \in {"Done", "Error"})
    /\ (pc = "Dispatching") ~>
          (pc = "Done" /\ HasReport /\ \A i \in Idx : items[i].pc = "done" /\ items[i].outcome # None)

\* a finished run of two items, the first one handled having failed
C12_Witness ==
    /\ pc = "Done" /\ HasReport /\ Len(work) >= 2
    /\ \E i \in Idx : items[i].outcome = "err"
    /\ stats.error_count >= 1

\* C13: the run only moves forward along Idle, Scanning, Dispatching,
\* Finalizing, Done, one state at a time (an empty work list goes from
\* Scanning to Done); a failure of the output root or of the scan leaves for
\* the error terminal with nothing dispatched; Finalizing is entered only when
\* every worker is done, after that no statistics change, and the report holds
\* the final counts.
C13_StateOrder ==
    /\ [][ /\ pc' # pc =>
                \/ <<pc, pc'>> \in { <<"Idle", "Scanning">>, <<"Scanning", "Dispatching">>,
                                     <<"Dispatching", "Finalizing">>, <<"Finalizing", "Done">> }
                \/ <<pc, pc'>> = <<"Scanning", "Done">> /\ work' = <<>>
                \/ pc \in {"Idle", "Scanning"} /\ pc' = "Error" /\ items' = <<>> /\ stats' = NewStats
           /\ (pc = "Dispatching" /\ pc' = "Finalizing") => \A i \in Idx : items[i].pc = "done"
           /\ pc \in {"Finalizing", "Done", "Error"} => (stats' = stats /\ items' = items)
           /\ pc = "Done" => (pc' = "Done" /\ report' = report) ]_vars
    /\ []((pc = "Done" /\ work # <<>>) =>
            /\ HasReport
            /\ report.processed_files = stats.processed_count
            /\ report.failed_files = stats.error_count
            /\ report.skipped_files = stats.skipped_count
            /\ report.errors = stats.errors)

\* a finished run in which two workers handled an item each
C13_Witness ==
    /\ pc = "Done" /\ HasReport /\ Len(work) >= 2
    /\ \A i \in Idx : items[i].pc = "done"
    /\ stats.processed_count + stats.error_count >= 2

\* C15: with structure preservation, any two distinct items of the work list
\* derive distinct destination paths.
C15_DistinctDestinations ==
    opt.preserve_structure =>
        \A i, j \in Idx : i # j => DestOf(i) # DestOf(j)

\* The body of the for_each closure (process_single_file, then the match of
\* convert_images) run to completion on one source, from filesystem and
\* statistics st, with a converter that decodes and writes (encoded size enc)
\* and a disposition that succeeds.
HandleOne(o, st, input_path, enc) ==
    LET output_path == calculate_output_path(o, input_path, get_output_dir(o))
        disposed(fs) == IF o.dry_run THEN fs
                        ELSE handle_input_replacement(o, fs, input_path, TRUE).fs
    IN IF exists(st.fs, output_path) /\ ~o.overwrite
       THEN [fs |-> disposed(st.fs), ds |-> st.ds,
             s |-> record_success(record_skip(st.s), 0, 0)]
       ELSE LET nd == create_dir_all(st.ds, output_path.dir)
                s1 == record_format(st.s, to_lowercase(input_path.ext))
                r == convert_to_webp(o, st.fs, nd, input_path, output_path, TRUE, TRUE, enc)
            IN IF r.res.ok
               THEN [fs |-> disposed(r.fs), ds |-> nd,
                     s |-> record_success(s1, r.res.original, r.res.compressed)]
               ELSE [fs |-> r.fs, ds |-> nd, s |-> record_error(s1, input_path, r.res.error)]

\* the closure applied to the items w[k], w[k+1], ... one after another
RECURSIVE OneByOne(_, _, _, _, _)
OneByOne(o, st, w, cs, k) ==
    IF k > Len(w) THEN st
    ELSE OneByOne(o, HandleOne(o, st, w[k], cs[k]), w, cs, k + 1)

\* C14: when every conversion and disposition of a finished run succeeded, the
\* final processed, failed and skipped counts, byte totals and per-format counts
\* are those of handling the work list one item after another from the same
\* initial filesystem (with the same encoded sizes), whatever the interleaving
\* of the workers was.
C14_OrderIndependentCounts ==
    (/\ pc = "Done" /\ HasReport /\ work # <<>>
     /\ \A i \in Idx : items[i].outcome \in {"ok", "skip"} /\ ~items[i].disp_failed) =>
        \E cs \in [Idx -> Sizes] :
            LET st0 == [fs |-> start.files,
                        ds |-> dirs,
                        s |-> NewStats]
                ref == OneByOne(opt, st0, work, cs, 1).s
            IN /\ stats.processed_count = ref.processed_count
               /\ stats.error_count = ref.error_count
               /\ stats.skipped_count = ref.skipped_count
               /\ stats.original_size = ref.original_size
               /\ stats.compressed_size = ref.compressed_size
               /\ stats.format_stats = ref.format_stats

\* the shape a destination must have for source src
IsDestinationOf(q, src) ==
    LET out == get_output_dir(opt)
        rel == SubSeq(src.dir, Len(opt.input_dir) + 1, Len(src.dir))
    IN /\ q.ext = "webp" /\ q.stem = src.stem
       /\ Len(q.dir) >= Len(out) /\ SubSeq(q.dir, 1, Len(out)) = out
       /\ q.dir = IF opt.preserve_structure THEN out \o rel ELSE out

\* C16: the destination derived for a work item is the source's path relative
\* to the input root under the output root (structure preserved) or its file
\* name directly under the output root (flat), always with extension webp and
\* under the output root; and every file a run creates is the destination so
\* derived of one of its work items.
C16_OutputPathDerivation ==
    /\ [](\A i \in Idx :
            IsDestinationOf(calculate_output_path(opt, work[i], get_output_dir(opt)), work[i]))
    /\ [][ \A q \in (DOMAIN files') \ (DOMAIN files) :
              \E i \in Idx : IsDestinationOf(q, work[i]) ]_vars

\* a source in a subdirectory converted with structure preservation
C16_Witness ==
    /\ opt.preserve_structure /\ ~opt.dry_run
    /\ \E i \in Idx :
          /\ work[i].dir = <<"in", "sub">>
          /\ items[i].outcome = "ok"
          /\ exists(files, Path(get_output_dir(opt) \o <<"sub">>, "a", "webp"))
          /\ ~exists(start.files, Path(get_output_dir(opt) \o <<"sub">>, "a", "webp"))

\* what the scanner is to enumerate: accepted extension, not webp unless
\* re-encoding, size within [min_size KB, max_size MB], signature matching
ShouldEnumerate(o, fs, p) ==
    /\ to_lowercase(p.ext) \in o.formats
    /\ (to_lowercase(p.ext) = "webp" => o.reencode_webp)
    /\ fs[p].size >= o.min_size * KB
    /\ (o.max_size # <<>> => fs[p].size <= o.max_size[1] * MB)
    /\ fs[p].hdr

\* C17: after a scan the work list holds exactly the files that are to be
\* enumerated, no error entry was made, and the library scanner and the
\* command-line scanner accept the same files.
C17_ScannerFilter ==
    pc = "Scanned" =>
        /\ \A p \in DOMAIN files :
              (\E i \in Idx : work[i] = p) <=> ShouldEnumerate(opt, files, p)
        /\ stats.errors = <<>> /\ stats.error_count = 0
        /\ \A p \in DOMAIN files : core_accepts(opt, files, p) <=> cli_accepts(opt, files, p)

\* the files of the initial tree that the scanner's policy turns away: a webp
\* source without the re-encode flag, a size outside the bounds, a header
\* that does not match
PolicyRejected(o, fs) ==
    { p \in walk(o, fs) :
        /\ to_lowercase(p.ext) \in o.formats
        /\ \/ to_lowercase(p.ext) = "webp" /\ ~o.reencode_webp
           \/ fs[p].size < o.min_size * KB
           \/ o.max_size # <<>> /\ fs[p].size > o.max_size[1] * MB
           \/ ~validate_image_header(fs, p) }

\* C18: in the report of a finished run the skip counter is the number of
\* policy skips: the items whose destination existed (overwrite disabled) plus
\* the files the scanner turned away by policy.
C18_PolicySkipsAreCounted ==
    (pc = "Done" /\ HasReport) =>
        report.skipped_files =
            Cardinality({ i \in DOMAIN items : items[i].outcome = "skip" })
              + Cardinality(PolicyRejected(opt, start.files))

\* no call of the aggregator is under way
Quiescent == pc = "Workers" /\ \A t \in DOMAIN items : items[t].pc = "idle"

FormatCount(f) == IF f \in DOMAIN stats.format_stats THEN stats.format_stats[f] ELSE 0

\* C19: at quiescence no update is lost: the counters equal the numbers of
\* record_success, record_error and record_skip calls issued by all threads,
\* the byte totals equal the sums of the arguments, the error list has one
\* entry per record_error call, and each format count equals the number of
\* record_format calls for that format.
C19_NoLostUpdate ==
    Quiescent =>
        /\ stats.processed_count = Issued("success")
        /\ stats.error_count = Issued("error")
        /\ stats.skipped_count = Issued("skip")
        /\ stats.original_size = Issued("original")
        /\ stats.compressed_size = Issued("compressed")
        /\ Len(get_errors(stats)) = Issued("error")
        /\ \A f \in Formats : FormatCount(f) = Issued(f)

\* two threads have each completed a record_error call, and a success was recorded
C19_Witness ==
    /\ Quiescent
    /\ \E t, u \in DOMAIN items : t # u /\ items[t].issued.error >= 1 /\ items[u].issued.error >= 1
    /\ Issued("success") >= 1

\* C20: with a progress sink and a non-empty work list, set_total_files has
\* been called exactly once, with the length of the work list, before any
\* update_progress; update_progress has been called once for every item that
\* is done, whatever its outcome, hence Len(work) times when the run is Done;
\* and the values of every call are at most the counters, which only grow up
\* to the totals of the report.  Without a sink nothing is called.
C20_ProgressSink ==
    /\ []((opt.dispatcher = "core" /\ opt.reporter /\ work # <<>>) =>
            /\ sink.set_total_calls = 1 /\ sink.total = Len(work)
            /\ sink.updates = Cardinality({ i \in Idx : items[i].pc = "done" })
            /\ sink.last[1] <= stats.processed_count /\ sink.last[2] <= stats.error_count
            /\ (pc = "Done" =>
                  /\ sink.updates = Len(work)
                  /\ sink.last[1] <= report.processed_files
                  /\ sink.last[2] <= report.failed_files))
    /\ [](sink.updates > 0 => sink.set_total_calls = 1)
    /\ []((opt.dispatcher = "core" /\ ~opt.reporter) => sink = NewSink)
    /\ [][ sink'.updates # sink.updates =>
              /\ sink'.updates = sink.updates + 1
              /\ sink'.set_total_calls = sink.set_total_calls
              /\ sink'.last[1] <= stats.processed_count
              /\ sink'.last[2] <= stats.error_count ]_vars

\* a finished run with a sink, two items, one of them failed
C20_Witness ==
    /\ pc = "Done" /\ opt.reporter /\ Len(work) = 2 /\ sink.updates = 2
    /\ \E i \in Idx : items[i].outcome = "err"
    /\ sink.last[1] + sink.last[2] >= 1

\* the grid points that were read before the colour budget ran out, and what
\* was seen at them
SampledRgb(img, k) == SubSeq(get_pixel(img, GridPoint(img, k)[1], GridPoint(img, k)[2]), 1, 3)

SampledPoints(img) ==
    LET budget == Min(100, (img.width * img.height) \div 4)
    IN { k \in 1..GridLen(img) :
           Cardinality({ SampledRgb(img, j) : j \in 1..(k - 1) }) <= budget }

SampledColours(img) == { SampledRgb(img, k) : k \in SampledPoints(img) }

SampledAlpha(img) ==
    \E k \in SampledPoints(img) : get_pixel(img, GridPoint(img, k)[1], GridPoint(img, k)[2])[4] < 255

\* C21: every decision of the Auto-mode selector is Lossless when the source
\* extension is png or gif (in any case); for any other extension Lossless
\* when the bitmap has fewer than 50,000 pixels, and otherwise Lossless exactly
\* when a sampled pixel has alpha < 255 or fewer than 64 distinct RGB triples
\* were sampled; and repeated decisions on the same bitmap and extension agree.
C21_AutoModeSelector ==
    pc = "Select" =>
        LET img == items[1].img
            ext == items[1].ext
            expected ==
                IF ext \in {"png", "PNG", "gif"} THEN TRUE
                ELSE IF img.width * img.height < 50000 THEN TRUE
                ELSE SampledAlpha(img) \/ Cardinality(SampledColours(img)) < 64
        IN /\ \A k \in DOMAIN work : work[k] = expected
           /\ \A j, k \in DOMAIN work : work[j] = work[k]

\* a large opaque jpg with exactly 64 sampled colours was decided Lossy, twice
C21_Witness ==
    /\ pc = "Select" /\ Len(work) >= 2
    /\ LET img == items[1].img
       IN /\ items[1].ext = "jpg" /\ img.width * img.height >= 50000
          /\ Cardinality(SampledColours(img)) = 64
          /\ ~SampledAlpha(img)
    /\ work[1] = FALSE /\ work[2] = FALSE

\* C22: in dry-run, whenever the converter was invoked for an item and
\* succeeded, the original size it returned is the size of the source file and
\* the encoded size is 0.6 times that size truncated to an integer, whatever
\* the image and whatever size an encoding would have had.
C22_DryRunEstimate ==
    opt.dry_run =>
        \A i \in DOMAIN items :
            (items[i].pc = "match" /\ items[i].conv > 0 /\ items[i].result.ok) =>
                /\ items[i].result.original = files[work[i]].size
                /\ 10 * items[i].result.compressed <= 6 * items[i].result.original
                /\ 6 * items[i].result.original < 10 * (items[i].result.compressed + 1)

\* a dry-run conversion of the 2048-byte jpg returned (2048, 1228)
C22_Witness ==
    /\ opt.dry_run
    /\ \E i \in DOMAIN items :
          /\ items[i].pc = "match" /\ items[i].conv = 1 /\ items[i].result.ok
          /\ work[i].ext = "jpg"
          /\ items[i].result.original = 2 * KB /\ items[i].result.compressed = 1228

\* C23: in every run for which a thread count is configured, the number of
\* workers the dispatch may use at once, and the thread count of the report,
\* equal the configured count; also in a later run of the same process that
\* configures another count.
C23_ConfiguredThreadCount ==
    (opt.dispatcher = "core" /\ opt.threads # <<>>) =>
        /\ (pc \in {"Dispatching", "Finalizing"} => current_num_threads(pool) = opt.threads[1])
        /\ (HasReport => report.thread_count = opt.threads[1])

\* the count of format f in a per-format map
CountIn(fm, f) == IF f \in DOMAIN fm THEN fm[f] ELSE 0

\* C24: the report of a second run() on the same engine holds only what the
\* second run recorded: each count, byte total, per-format count and the error
\* list is what was added since that run began; and processed + failed +
\* skipped does not exceed the second run's total_files (stated for the runs
\* that skipped no item, a skipped item being counted twice within one run).
C24_RunsAreStateless ==
    (start.engine_run = 2 /\ pc = "Done" /\ HasReport) =>
        /\ report.processed_files = stats.processed_count - start.stats0.processed_count
        /\ report.failed_files = stats.error_count - start.stats0.error_count
        /\ report.skipped_files = stats.skipped_count - start.stats0.skipped_count
        /\ report.original_size = stats.original_size - start.stats0.original_size
        /\ report.compressed_size = stats.compressed_size - start.stats0.compressed_size
        /\ \A f \in DefaultFormats :
              CountIn(report.format_stats, f) =
                 CountIn(stats.format_stats, f) - CountIn(start.stats0.format_stats, f)
        /\ (work # <<>> =>
              report.errors = SubSeq(stats.errors, Len(start.stats0.errors) + 1, Len(stats.errors)))
        /\ ((\A i \in Idx : items[i].outcome # "skip") =>
              report.processed_files + report.failed_files + report.skipped_files
                 <= report.total_files)

\* C28: a second run with the same options, after a run that ended without a
\* failure, with overwrite disabled and disposition Off, invokes the converter
\* for no item and changes no file, and its work list holds no file that the
\* first run created; also with the default output sub-folder of the input
\* root and the re-encode flag set.
C28_RerunsAreIdempotent ==
    (/\ start.run = 2 /\ start.prev # <<>>
     /\ start.prev[1].opt = opt /\ start.prev[1].clean
     /\ ~opt.overwrite /\ opt.replace_input = "Off") =>
        /\ \A i \in DOMAIN items : items[i].conv = 0
        /\ files = start.files
        /\ \A i \in Idx : work[i] \notin start.prev[1].written

\* C25: every work item is taken up once and never again, the converter is
\* invoked at most once for it, and when it is done exactly one of
\* record_success, record_error and record_skip has been called for it.
C25_HandledExactlyOnce ==
    /\ [](\A i \in DOMAIN items :
            /\ items[i].conv <= 1
            /\ (items[i].pc = "done" =>
                  items[i].recorded.success + items[i].recorded.error + items[i].recorded.skip = 1))
    /\ [][ \A i \in DOMAIN items :
              (i \in DOMAIN items' /\ items[i].pc # "todo") =>
                 /\ items'[i].pc # "todo"
                 /\ items'[i].conv <= 1 ]_vars

\* the conversion of item i wrote its destination
Wrote(its, i) == ~opt.dry_run /\ its[i].conv >= 1 /\ its[i].outcome = "ok"

\* C26: with overwrite disabled, under every interleaving of the workers, no
\* conversion writes a destination that exists at that moment, and of two work
\* items that derive the same destination at most one writes it.
C26_DestinationWrittenOnce ==
    /\ []((~opt.overwrite /\ pc = "Dispatching") =>
            \A i, j \in Idx :
                (i # j /\ DestOf(i) = DestOf(j)) => ~(Wrote(items, i) /\ Wrote(items, j)))
    /\ [][ (~opt.overwrite /\ pc = "Dispatching") =>
              \A i \in Idx :
                 (~Wrote(items, i) /\ Wrote(items', i)) => ~exists(files, DestOf(i)) ]_vars

\* C27: in a run that is not a dry run, the disposition of a source never
\* removes the destination its conversion wrote, and when the run is done the
\* destination of every item counted as processed exists; also when the
\* output root is the input root and a webp source is re-encoded.
C27_DestinationSurvivesDisposition ==
    /\ []((pc = "Done" /\ ~opt.dry_run) =>
            \A i \in Idx : items[i].recorded.success >= 1 => exists(files, DestOf(i)))
    /\ [][ (pc = "Dispatching" /\ ~opt.dry_run) =>
              \A i \in Idx :
                 (/\ Wrote(items, i) /\ exists(files, DestOf(i))
                  /\ items[i].disp = 0 /\ items'[i].disp = 1) => exists(files', DestOf(i)) ]_vars

\* C30: under every interleaving of the workers, each update_progress call
\* received by the sink carries processed and failed values at least those of
\* the call received before it, and when the run is done the last call
\* received carried the final processed and failed totals.
C30_ProgressIsMonotone ==
    /\ [][ sink'.updates = sink.updates + 1 =>
              /\ sink'.last[1] >= sink.last[1]
              /\ sink'.last[2] >= sink.last[2] ]_vars
    /\ []((pc = "Done" /\ opt.dispatcher = "core" /\ opt.reporter /\ work # <<>>) =>
            sink.last = <<report.processed_files, report.failed_files>>)


\* the background threads that have not yet stored their result
ActiveRuns == { t \in DOMAIN items : items[t].pc # "exited" }

\* C29: in the GUI, for every sequence of Start, Stop and Clear clicks, at
\* most one background run is active; whenever is_converting is false no
\* background run is still active (writing to the shared reporter); and the
\* report or error stored with the finished flag, and the report shown, belong
\* to the most recently started run.
C29_OneBackgroundRun ==
    /\ Cardinality(ActiveRuns) <= 1
    /\ (~report.is_converting => ActiveRuns = {})
    /\ (sink.report # <<>> => sink.report[1].run = Len(items))
    /\ (sink.error # <<>> => sink.error[1] = Len(items))
    /\ (report.last_report # <<>> => report.last_report[1].run = Len(items))

====
